---------------------------- MODULE Spec2Model ----------------------------
(***************************************************************************)
(* LifeOS: the confirmation gate (agent/confirmation.py), the caller API   *)
(* of SmartAgent (agent/smart_agent.py), the bounded worker loop           *)
(* (agent/sub_agents/base_sub_agent.py) and the plan executor              *)
(* (agent/master_agent.py, agent/planning/schemas.py).                     *)
(*                                                                         *)
(* The specifications share the variables:                                 *)
(*   Spec        the caller API and the confirmation gate: process(),      *)
(*               handle_confirmation(), the clock;                         *)
(*   SpecWorker  one run of BaseSubAgent.execute, one step per await;      *)
(*   SpecPlan    one run of MasterAgent._execute_plan on a planner output; *)
(*   SpecMaster  one MasterAgent.process run beside another process()      *)
(*               call on the same working memory;                          *)
(*   SpecMemory  the WorkingMemory, its state.json and a restart;          *)
(*   SpecProcess one SmartAgent.process call with its fast-path worker;    *)
(*   SpecWave    one _execute_plan run with the state.json it writes;      *)
(*   SpecAutomations  automations.json, the scheduler pass and the store's *)
(*               tool calls (tools/automations_tool.py).                   *)
(***************************************************************************)
EXTENDS Integers, Sequences, FiniteSets, TLC

VARIABLES
    \* ---- Spec: caller API and confirmation gate
    now,              \* datetime.now(), in minutes
    USE_MASTER_AGENT, \* SmartAgent.USE_MASTER_AGENT (class switch, legacy mode when FALSE)
    pending_actions,  \* ConfirmationManager.pending_actions: a dict, as its set of items
    next_id,          \* the next fresh PendingAction.action_id (uuid4)
    proc,             \* per caller: where its process() call stands
    last_invoked,     \* the latest tool.execute() call
    confirm_result,   \* the last handle_confirmation() call: for whom, what the
                      \* gate held for them when it was called, the text returned
    stale,            \* <<user, action_id>> pending when a process(user) call began
    superseded,       \* action_ids overwritten by a later create_pending_action
    \* ---- SpecWorker: one BaseSubAgent.execute run
    worker,
    \* ---- SpecPlan: one MasterAgent._execute_plan run
    steps,            \* plan.steps: the PlanSteps in order
    step_records,     \* WorkingMemory.step_records of the MasterAgent
    contexts,         \* per step: the previous_results _execute_step got for it
    exec_pc,          \* where _execute_plan stands
    \* ---- SpecMaster: one MasterAgent.process run, beside another one
    master_pc,        \* where MasterAgent.process stands
    response,         \* what it returned
    truncated,        \* a Reasoning Service call of the run had finish_reason "length"
    other,            \* where another process() call on the same MasterAgent stands
    \* ---- SpecMemory: a WorkingMemory and its state.json
    scratchpad,       \* the WorkingMemory instance of the running process
    state_file,       \* the content of working_memory/state.json
    mem_op,           \* the latest operation on the WorkingMemory
    \* ---- SpecProcess: one SmartAgent.process call, from message to reply
    process_result,   \* what process() returned to its caller
    \* ---- SpecAutomations: the automations store and one scheduler pass
    automations_file, \* the content of automations/automations.json
    check_pass,       \* where check_and_run_due stands, and the list it loaded
    store_ops         \* the tool calls on the store: ids given out, and what
                      \* the calls made during the current pass left of each id

vars == <<now, USE_MASTER_AGENT, pending_actions, next_id, proc, last_invoked,
          confirm_result, stale, superseded, worker, steps, step_records,
          contexts, exec_pc, master_pc, response, truncated, other,
          scratchpad, state_file, mem_op, process_result,
          automations_file, check_pass, store_ops>>

gateVars == <<now, USE_MASTER_AGENT, pending_actions, next_id, proc, last_invoked, confirm_result, stale, superseded>>
planVars == <<steps, step_records, contexts, exec_pc>>
masterVars == <<master_pc, response, truncated, other>>
memVars == <<scratchpad, state_file, mem_op>>
callVars == <<process_result>>
autoVars == <<automations_file, check_pass, store_ops>>

(***************************************************************************)
(* Bounds of the model.                                                    *)
(***************************************************************************)
MaxTime == 6          \* the clock runs 0..MaxTime
MaxRequests == 2      \* create_pending_action calls in one behaviour
MaxCalls == 2         \* tool calls in one Reasoning Service response
MaxAutomations == 3   \* automations created in one behaviour
MaxSteps == 3         \* steps of a plan
MaxNotes == 21        \* add_note calls in one behaviour
MaxRecords == 2       \* record_step calls between two clear_plan

(***************************************************************************)
(* Program constants.                                                      *)
(***************************************************************************)
NOTES_KEPT == 20

TTL_MINUTES == 5      \* PendingAction.expires_at = now + timedelta(minutes=5)

Users == {"u1", "u2"}
\* settings.ALLOWED_USER_IDS[0], the user the automation scheduler acts for
SchedulerUser == "u1"
\* "bot": the Telegram update handlers, one update at a time;
\* "sched": the automation_scheduler task, which calls agent.process itself
Callers == {"bot", "sched"}

\* The action names of the model, both tools of FinanceSubAgent: one of the
\* sensitive allow-list and one that is not on it.
SENSITIVE_ACTIONS == {"send_email", "create_event", "create_reminder",
                      "delete_event", "settle_loan", "delete_note", "delete_task"}
ActionNames == {"settle_loan", "add_loan"}

None == [none |-> TRUE]

requires_confirmation(action_name) == action_name \in SENSITIVE_ACTIONS

\* The non-empty tool-call lists a Reasoning Service response may carry.
ToolCallLists == UNION {[1..n -> ActionNames] : n \in 1..MaxCalls}

(***************************************************************************)
(* ConfirmationManager                                                     *)
(***************************************************************************)
\* The dict items of one user (a dict holds at most one).
ItemsOf(d, user_id) == {p \in d : p.user_id = user_id}

\* d[user_id] = value
DictSet(d, user_id, value) ==
    (d \ ItemsOf(d, user_id)) \cup {[user_id |-> user_id, value |-> value]}

\* del d[user_id]
DictDel(d, user_id) == d \ ItemsOf(d, user_id)

\* d.get(user_id)
DictGet(d, user_id) ==
    IF ItemsOf(d, user_id) = {} THEN None
    ELSE (CHOOSE p \in ItemsOf(d, user_id) : TRUE).value

\* SENSITIVE_ACTIONS[action_name] filled in, with the expiry warning appended
Description(action_name) == <<"template", action_name, "Expires in 5 minutes">>

\* PendingAction(...): the dataclass defaults set action_id, created_at, expires_at
PendingAction(action_name, action_id, t) ==
    [action_name |-> action_name,
     description |-> Description(action_name),
     action_id   |-> action_id,
     created_at  |-> t,
     expires_at  |-> t + TTL_MINUTES]

\* is_expired that never reports expiry
is_expired_never(pending, t) == FALSE

is_expired(pending, t) == t > pending.expires_at

\* create_pending_action that appends the entry instead of assigning the key
create_pending_action_appends(d, user_id, pending) ==
    d \cup {[user_id |-> user_id, value |-> pending]}

\* create_pending_action: the gate after self.pending_actions[user_id] = pending
create_pending_action(d, user_id, pending) == DictSet(d, user_id, pending)

\* get_pending_action: <<what it returns, the gate afterwards>>
get_pending_action(d, user_id, t) ==
    LET pending == DictGet(d, user_id) IN
    IF pending # None
    THEN IF is_expired(pending, t)
         THEN <<None, DictDel(d, user_id)>>
         ELSE <<pending, d>>
    ELSE <<None, d>>

\* confirm_action that returns the entry without deleting it
confirm_action_keeps(d, user_id, t) == get_pending_action(d, user_id, t)

\* confirm_action: <<what it returns, the gate afterwards>>
confirm_action(d, user_id, t) ==
    LET got == get_pending_action(d, user_id, t) IN
    IF got[1] # None
    THEN <<got[1], DictDel(got[2], user_id)>>
    ELSE <<None, got[2]>>

\* cancel_action: the gate afterwards
cancel_action(d, user_id) ==
    IF ItemsOf(d, user_id) # {} THEN DictDel(d, user_id) ELSE d


(***************************************************************************)
(* SmartAgent: process() and handle_confirmation()                         *)
(***************************************************************************)
Idle == [pc |-> "idle", user_id |-> "u1"]


NoInvocation == [user_id |-> "u1", action_name |-> "", via |-> "none",
                 action_id |-> 0]

\* One tool.execute(action_name, arguments) call: who it acts for, which path
\* made it ("worker", "legacy" or "confirm") and, for a confirmed pending
\* action, its action_id.
Invocation(user_id, action_name, via, action_id) ==
    [user_id |-> user_id, action_name |-> action_name, via |-> via,
     action_id |-> action_id]

\* The action_ids of the entries the gate holds for a user.
PendingIds(d, user_id) == {p.value.action_id : p \in ItemsOf(d, user_id)}

\* process() that leaves the gate alone
CancelOnNewMessage_skipped(d, user_id, t) == d

\* process(), "Cancel any pending confirmations if user sends new message":
\* the gate afterwards.
CancelOnNewMessage(d, user_id, t) ==
    LET got == get_pending_action(d, user_id, t) IN
    IF got[1] # None THEN cancel_action(got[2], user_id) ELSE got[2]

\* Where process() goes after the fast path raised or did not match.
AfterFastPath == IF USE_MASTER_AGENT THEN "master" ELSE "legacy"

\* process() starts: the pending confirmation of the user is cancelled, then
\* the message is routed (fast path when _detect_fast_path matches).
ProcessStart(c, user_id, fast_route) ==
    /\ proc[c].pc = "idle"
    /\ c = "sched" => user_id = SchedulerUser
    /\ stale' = stale \cup {<<user_id, i>> : i \in PendingIds(pending_actions, user_id)}
    /\ pending_actions' = CancelOnNewMessage(pending_actions, user_id, now)
    /\ proc' = [proc EXCEPT ![c] =
                  [pc |-> IF fast_route THEN "fast" ELSE AfterFastPath,
                   user_id |-> user_id]]
    /\ UNCHANGED <<now, USE_MASTER_AGENT, next_id, last_invoked, confirm_result, superseded>>

\* A worker run by the fast path or by a plan step executes one requested
\* tool call: BaseSubAgent.execute calls _execute_tool for every tool call
\* of a response, whatever its name.
WorkerInvoke(c, action_name) ==
    /\ proc[c].pc \in {"fast", "master"}
    /\ last_invoked' = Invocation(proc[c].user_id, action_name, "worker", 0)
    /\ UNCHANGED <<now, USE_MASTER_AGENT, pending_actions, next_id, proc, confirm_result,
                   stale, superseded>>

\* _execute_fast_path returns: the worker's output on success; on failure it
\* raises, process() logs it and goes on to the master agent or legacy path.
FastPathReturn(c, success) ==
    /\ proc[c].pc = "fast"
    /\ IF success
       THEN proc' = [proc EXCEPT ![c] = Idle]
       ELSE proc' = [proc EXCEPT ![c].pc = AfterFastPath]
    /\ UNCHANGED confirm_result
    /\ UNCHANGED <<now, USE_MASTER_AGENT, pending_actions, next_id, last_invoked,
                   stale, superseded>>

\* master_agent.process returns (it catches every Exception itself);
\* needs_confirmation is the planner's requires_confirmation flag of a
\* completed step.
MasterReturn(c, needs_confirmation) ==
    /\ proc[c].pc = "master"
    /\ proc' = [proc EXCEPT ![c] = Idle]
    /\ UNCHANGED confirm_result
    /\ UNCHANGED <<now, USE_MASTER_AGENT, pending_actions, next_id, last_invoked,
                   stale, superseded>>

\* The first tool call of a response that requires confirmation, 0 if none.
FirstSensitive(tool_calls) ==
    IF \E i \in DOMAIN tool_calls : requires_confirmation(tool_calls[i])
    THEN CHOOSE i \in DOMAIN tool_calls :
            /\ requires_confirmation(tool_calls[i])
            /\ \A j \in 1..(i - 1) : ~requires_confirmation(tool_calls[j])
    ELSE 0

\* _process_legacy, a response with tool calls, one of them sensitive: the
\* check runs over all tool calls before any is executed.
LegacyNeedsConfirmation(c, tool_calls) ==
    LET i == FirstSensitive(tool_calls)
        pending == PendingAction(tool_calls[i], next_id, now)
    IN
    /\ proc[c].pc = "legacy"
    /\ i # 0
    /\ next_id <= MaxRequests
    /\ pending_actions' =
          create_pending_action(pending_actions, proc[c].user_id, pending)
    /\ superseded' = superseded \cup PendingIds(pending_actions, proc[c].user_id)
    /\ next_id' = next_id + 1
    /\ proc' = [proc EXCEPT ![c] = Idle]
    /\ UNCHANGED confirm_result
    /\ UNCHANGED <<now, USE_MASTER_AGENT, last_invoked, stale>>

\* _process_legacy, a response with tool calls, none sensitive:
\* _execute_tools runs them in order and the loop asks again.
LegacyExecuteTools(c, tool_calls) ==
    /\ proc[c].pc = "legacy"
    /\ FirstSensitive(tool_calls) = 0
    /\ last_invoked' = Invocation(proc[c].user_id, tool_calls[Len(tool_calls)],
                                  "legacy", 0)
    /\ UNCHANGED <<now, USE_MASTER_AGENT, pending_actions, next_id, proc, confirm_result,
                   stale, superseded>>

\* _process_legacy, a response without tool calls: the final text.
LegacyFinal(c) ==
    /\ proc[c].pc = "legacy"
    /\ proc' = [proc EXCEPT ![c] = Idle]
    /\ UNCHANGED confirm_result
    /\ UNCHANGED <<now, USE_MASTER_AGENT, pending_actions, next_id, last_invoked,
                   stale, superseded>>

\* handle_confirmation(user_id, True): the text it returns, given what
\* confirm_action returned and whether the tool succeeded.
ConfirmText(pending, tool_success) ==
    IF pending # None
    THEN IF tool_success THEN "Done!" ELSE "Failed"
    ELSE "Action expired."

\* What the gate holds for a user at time t: "nothing", an "expired" entry
\* or a "live" one.
Found(d, user_id, t) ==
    IF ItemsOf(d, user_id) = {} THEN "nothing"
    ELSE IF \A p \in ItemsOf(d, user_id) : t > p.value.expires_at THEN "expired"
    ELSE "live"

NoConfirmation == [user_id |-> "u1", found |-> "", text |-> ""]

\* handle_confirmation(user_id, True), a button press handled by the bot.
\* Every sensitive name is in _get_tool's mapping, so the tool is found.
HandleConfirmationYes(user_id, tool_success) ==
    LET got == confirm_action(pending_actions, user_id, now)
        pending == got[1]
    IN
    /\ proc["bot"].pc = "idle"
    /\ pending = None => tool_success
    /\ pending_actions' = got[2]
    /\ last_invoked' = IF pending # None
                       THEN Invocation(user_id, pending.action_name, "confirm",
                                       pending.action_id)
                       ELSE last_invoked
    /\ confirm_result' = [user_id |-> user_id,
                          found |-> Found(pending_actions, user_id, now),
                          text |-> ConfirmText(pending, tool_success)]
    /\ UNCHANGED <<now, USE_MASTER_AGENT, next_id, proc, stale, superseded>>

\* handle_confirmation(user_id, False)
HandleConfirmationNo(user_id) ==
    /\ proc["bot"].pc = "idle"
    /\ pending_actions' = cancel_action(pending_actions, user_id)
    /\ confirm_result' = [user_id |-> user_id, found |-> "",
                          text |-> "Cancelled."]
    /\ UNCHANGED <<now, USE_MASTER_AGENT, next_id, proc, last_invoked, stale, superseded>>

\* A minute passes. Nothing else happens: the gate has no timer.
Tick ==
    /\ now < MaxTime
    /\ now' = now + 1
    /\ UNCHANGED <<USE_MASTER_AGENT, pending_actions, next_id, proc, last_invoked,
                   confirm_result, stale, superseded>>


(***************************************************************************)
(* Spec: the caller API over the confirmation gate                         *)
(***************************************************************************)
\* The values the worker and plan variables keep outside their own
\* specifications.
NoWorker == [pc |-> "off"]
NoPlan == <<>>
NoResponse == [kind |-> "none", of |-> {}, llm_called |-> FALSE]

MasterOff ==
    /\ master_pc = "off"
    /\ response = NoResponse
    /\ truncated = FALSE
    /\ other = "off"

MemoryOff ==
    /\ scratchpad = None
    /\ state_file = None
    /\ mem_op = "off"

NoResult == [returned |-> FALSE]

CallOff == process_result = NoResult

AutoOff ==
    /\ automations_file = <<>>
    /\ check_pass = [pc |-> "off"]
    /\ store_ops = [created |-> 0, changed |-> {}]

Init ==
    /\ now = 0
    /\ USE_MASTER_AGENT \in BOOLEAN
    /\ pending_actions = {}
    /\ next_id = 1
    /\ proc = [c \in Callers |-> Idle]
    /\ last_invoked = NoInvocation
    /\ confirm_result = NoConfirmation
    /\ stale = {}
    /\ superseded = {}
    /\ worker = NoWorker
    /\ steps = NoPlan
    /\ step_records = <<>>
    /\ contexts = <<>>
    /\ exec_pc = "off"
    /\ MasterOff
    /\ MemoryOff
    /\ CallOff
    /\ AutoOff

Next ==
    \/ \E c \in Callers, u \in Users, f \in BOOLEAN :
          ProcessStart(c, u, f) /\ UNCHANGED <<worker, planVars, masterVars, memVars, callVars, autoVars>>
    \/ \E c \in Callers, a \in ActionNames :
          WorkerInvoke(c, a) /\ UNCHANGED <<worker, planVars, masterVars, memVars, callVars, autoVars>>
    \/ \E c \in Callers, ok \in BOOLEAN :
          FastPathReturn(c, ok) /\ UNCHANGED <<worker, planVars, masterVars, memVars, callVars, autoVars>>
    \/ \E c \in Callers, n \in BOOLEAN :
          MasterReturn(c, n) /\ UNCHANGED <<worker, planVars, masterVars, memVars, callVars, autoVars>>
    \/ \E c \in Callers, tcs \in ToolCallLists :
          LegacyNeedsConfirmation(c, tcs) /\ UNCHANGED <<worker, planVars, masterVars, memVars, callVars, autoVars>>
    \/ \E c \in Callers, tcs \in ToolCallLists :
          LegacyExecuteTools(c, tcs) /\ UNCHANGED <<worker, planVars, masterVars, memVars, callVars, autoVars>>
    \/ \E c \in Callers :
          LegacyFinal(c) /\ UNCHANGED <<worker, planVars, masterVars, memVars, callVars, autoVars>>
    \/ \E u \in Users, ok \in BOOLEAN :
          HandleConfirmationYes(u, ok) /\ UNCHANGED <<worker, planVars, masterVars, memVars, callVars, autoVars>>
    \/ \E u \in Users :
          HandleConfirmationNo(u) /\ UNCHANGED <<worker, planVars, masterVars, memVars, callVars, autoVars>>
    \/ Tick /\ UNCHANGED <<worker, planVars, masterVars, memVars, callVars, autoVars>>

Spec == Init /\ [][Next]_vars


(***************************************************************************)
(* SpecWorker: one run of BaseSubAgent.execute (FinanceSubAgent)           *)
(***************************************************************************)
max_iterations == 5

\* get_tool_mapping() of FinanceSubAgent, the names of the model
tool_mapping == {"settle_loan", "add_loan"}

\* What a response may ask for: the mapped names and one the mapping lacks.
RequestedNames == tool_mapping \cup {"unknown_fn"}
WorkerToolCallLists == UNION {[1..n -> RequestedNames] : n \in 1..MaxCalls}

SubAgentResult(success, error, requires_replanning, iterations_used) ==
    [success |-> success, error |-> error,
     requires_replanning |-> requires_replanning,
     requires_user_input |-> FALSE,
     iterations_used |-> iterations_used]

\* while iterations <= self.max_iterations
LoopContinues_inclusive(iterations) == iterations <= max_iterations

\* while iterations < self.max_iterations
LoopContinues(iterations) == iterations < max_iterations

WorkerStart ==
    [pc |-> "loop",          \* "loop": at the while test; "tools": in the for
                             \* loop over tool_calls; "returned"
     iterations |-> 0,
     llm_calls |-> 0,        \* _call_llm calls made
     outcome |-> "none",     \* what the latest _call_llm gave
     tool_calls |-> <<>>,    \* the tool calls of the latest response
     next_tc |-> 1,          \* the next of them the for loop handles
     n_executed |-> 0,       \* tool.execute calls made
     n_requested |-> 0,      \* tool calls the responses asked for so far
     invoked |-> <<>>,       \* the names tool.execute got in this iteration
     result |-> None]

\* _call_llm returns a response with tool calls.
WorkerRequestsTools(tool_calls) ==
    /\ worker.pc = "loop"
    /\ LoopContinues(worker.iterations)
    /\ worker' = [worker EXCEPT !.pc = "tools",
                                !.iterations = @ + 1,
                                !.llm_calls = @ + 1,
                                !.outcome = "tool_calls",
                                !.tool_calls = tool_calls,
                                !.n_requested = @ + Len(tool_calls),
                                !.invoked = <<>>,
                                !.next_tc = 1]

\* _call_llm returns a response without tool calls: the final answer.
WorkerFinalAnswer ==
    /\ worker.pc = "loop"
    /\ LoopContinues(worker.iterations)
    /\ worker' = [worker EXCEPT !.pc = "returned",
                                !.iterations = @ + 1,
                                !.llm_calls = @ + 1,
                                !.outcome = "final",
                                !.result = SubAgentResult(TRUE, "", FALSE,
                                                          worker.iterations + 1)]

\* _call_llm raises (the API failed, or finish_reason was "length").
WorkerLLMRaises ==
    /\ worker.pc = "loop"
    /\ LoopContinues(worker.iterations)
    /\ worker' = [worker EXCEPT !.pc = "returned",
                                !.iterations = @ + 1,
                                !.llm_calls = @ + 1,
                                !.outcome = "raise",
                                !.result = SubAgentResult(FALSE, "exception", FALSE,
                                                          worker.iterations + 1)]

\* The for loop handles one tool call: _execute_tool runs tool.execute when
\* the mapping has the name (the tool catches its own errors and returns a
\* ToolResult), and returns "Unknown function" when it has not; after the
\* last tool call the while loop continues.
\* _execute_tool that runs the tool twice
execute_tool_twice(invoked, func_name) ==
    IF func_name \in tool_mapping
    THEN invoked \o <<func_name, func_name>>
    ELSE invoked

\* _execute_tool(func_name, args): the tool.execute calls made so far in the
\* iteration, with this one when the mapping has the name.
execute_tool(invoked, func_name) ==
    IF func_name \in tool_mapping THEN Append(invoked, func_name) ELSE invoked

WorkerExecuteTool ==
    LET func_name == worker.tool_calls[worker.next_tc]
        after == execute_tool(worker.invoked, func_name)
    IN
    /\ worker.pc = "tools"
    /\ worker.next_tc <= Len(worker.tool_calls)
    /\ worker' = [worker EXCEPT
                    !.invoked = after,
                    !.n_executed = @ + Len(after) - Len(worker.invoked),
                    !.next_tc = @ + 1,
                    !.pc = IF worker.next_tc = Len(worker.tool_calls)
                           THEN "loop" ELSE "tools"]

\* The while test fails: "Max iterations reached".
WorkerIterationLimit ==
    /\ worker.pc = "loop"
    /\ ~LoopContinues(worker.iterations)
    /\ worker' = [worker EXCEPT !.pc = "returned",
                                !.result = SubAgentResult(FALSE, "iteration_limit",
                                                          TRUE, worker.iterations)]

InitWorker ==
    /\ now = 0
    /\ USE_MASTER_AGENT = TRUE
    /\ pending_actions = {}
    /\ next_id = 1
    /\ proc = [c \in Callers |-> Idle]
    /\ last_invoked = NoInvocation
    /\ confirm_result = NoConfirmation
    /\ stale = {}
    /\ superseded = {}
    /\ worker = WorkerStart
    /\ steps = NoPlan
    /\ step_records = <<>>
    /\ contexts = <<>>
    /\ exec_pc = "off"
    /\ MasterOff
    /\ MemoryOff
    /\ CallOff
    /\ AutoOff

NextWorker ==
    \/ \E tcs \in WorkerToolCallLists :
          WorkerRequestsTools(tcs) /\ UNCHANGED <<gateVars, planVars, masterVars, memVars, callVars, autoVars>>
    \/ WorkerFinalAnswer /\ UNCHANGED <<gateVars, planVars, masterVars, memVars, callVars, autoVars>>
    \/ WorkerLLMRaises /\ UNCHANGED <<gateVars, planVars, masterVars, memVars, callVars, autoVars>>
    \/ WorkerExecuteTool /\ UNCHANGED <<gateVars, planVars, masterVars, memVars, callVars, autoVars>>
    \/ WorkerIterationLimit /\ UNCHANGED <<gateVars, planVars, masterVars, memVars, callVars, autoVars>>

SpecWorker == InitWorker /\ [][NextWorker]_vars

(***************************************************************************)
(* SpecPlan: one run of MasterAgent._execute_plan                          *)
(***************************************************************************)
\* The ids the planner's output may use.  _create_plan takes the ids and the
\* depends_on lists as the Reasoning Service gives them: nothing checks that
\* the ids differ or that a depends_on id is the id of a step.
StepIds == {"s1", "s2"}

PlanStep(id, depends_on) ==
    [id |-> id, depends_on |-> depends_on, status |-> "pending"]

PlannedSteps == {PlanStep(id, deps) : id \in StepIds, deps \in SUBSET StepIds}
Plans == UNION {[1..n -> PlannedSteps] : n \in 1..MaxSteps}

\* the ids of the steps that are finished, whatever their result
completed_ids_finished(plan_steps) ==
    {plan_steps[j].id : j \in {k \in DOMAIN plan_steps :
                                 plan_steps[k].status \in {"completed", "failed"}}}

\* completed_ids = {s.id for s in self.steps if s.status == COMPLETED}
completed_ids(plan_steps) ==
    {plan_steps[j].id : j \in {k \in DOMAIN plan_steps :
                                 plan_steps[k].status = "completed"}}

\* the loop stops at the first failure: no step is ready once a step failed
get_ready_steps_abort(plan_steps) ==
    {i \in DOMAIN plan_steps :
        /\ \A j \in DOMAIN plan_steps : plan_steps[j].status # "failed"
        /\ plan_steps[i].status = "pending"
        /\ \A dep \in plan_steps[i].depends_on : dep \in completed_ids(plan_steps)}

\* ExecutionPlan.get_ready_steps, as the indexes of the ready steps
get_ready_steps(plan_steps) ==
    {i \in DOMAIN plan_steps :
        /\ plan_steps[i].status = "pending"
        /\ \A dep \in plan_steps[i].depends_on : dep \in completed_ids(plan_steps)}

\* the loop takes the plan for done whatever is Pending
PendingSteps_none(plan_steps) == {}

\* pending = [s for s in plan.steps if s.status == StepStatus.PENDING]
PendingSteps(plan_steps) ==
    {i \in DOMAIN plan_steps : plan_steps[i].status = "pending"}

\* StepRecord, with the plan and the step it was recorded for
StepRecord(plan, step, step_id, success) ==
    [plan |-> plan, step |-> step, step_id |-> step_id, success |-> success]

\* WorkingMemory.get_context_for_step: context["previous_results"]
get_context_for_step(step, records) ==
    {records[k] : k \in {n \in DOMAIN records :
                           step.depends_on # {} /\ records[n].step_id \in step.depends_on}}

\* gather returns as soon as one _execute_step of the wave has
WaveFinished_first(plan_steps) ==
    \E i \in DOMAIN plan_steps : plan_steps[i].status \in {"completed", "failed"}

\* asyncio.gather(*tasks) returns when every _execute_step of the wave has
WaveFinished(plan_steps) ==
    \A i \in DOMAIN plan_steps : plan_steps[i].status # "running"

\* a failed step is put back for another try
StatusOfResult_retry(success) == IF success THEN "completed" ELSE "pending"

\* step.status = COMPLETED if result.success else FAILED
StatusOfResult(success) == IF success THEN "completed" ELSE "failed"

\* The loop finds ready steps: it marks each of them Running and starts
\* its _execute_step, which builds the step's context and runs up to the
\* sub-agent's first await; then the loop awaits them all.
ExecuteReadySteps ==
    /\ exec_pc = "loop"
    /\ get_ready_steps(steps) # {}
    /\ steps' = [i \in DOMAIN steps |->
                    IF i \in get_ready_steps(steps)
                    THEN [steps[i] EXCEPT !.status = "running"]
                    ELSE steps[i]]
    /\ contexts' = [i \in DOMAIN steps |->
                       IF i \in get_ready_steps(steps)
                       THEN get_context_for_step(steps[i], step_records)
                       ELSE contexts[i]]
    /\ exec_pc' = "gather"
    /\ UNCHANGED step_records

\* a record_step that writes the history anew with its record
AppendRecord_overwrite(records, record) == <<record>>

\* record_step: self.step_records.append(record)
AppendRecord(records, record) == Append(records, record)

\* _execute_step: sub_agent.execute returns; the step takes the status of
\* the result and working memory records it.
StepReturns(i, success) ==
    /\ exec_pc = "gather"
    /\ steps[i].status = "running"
    /\ steps' = [steps EXCEPT ![i].status = StatusOfResult(success)]
    /\ step_records' = AppendRecord(step_records,
                                    StepRecord("this", i, steps[i].id, success))
    /\ UNCHANGED <<contexts, exec_pc>>

\* _execute_step: sub_agent.execute raises; the step fails and nothing is
\* recorded.
StepRaises(i) ==
    /\ exec_pc = "gather"
    /\ steps[i].status = "running"
    /\ steps' = [steps EXCEPT ![i].status = "failed"]
    /\ UNCHANGED <<step_records, contexts, exec_pc>>

\* asyncio.gather returns when every _execute_step of the wave has.
GatherReturns ==
    /\ exec_pc = "gather"
    /\ WaveFinished(steps)
    /\ exec_pc' = "loop"
    /\ UNCHANGED <<steps, step_records, contexts>>

\* No ready step and no Pending step: all done.
PlanAllDone ==
    /\ exec_pc = "loop"
    /\ get_ready_steps(steps) = {}
    /\ PendingSteps(steps) = {}
    /\ exec_pc' = "done"
    /\ UNCHANGED <<steps, step_records, contexts>>

\* No ready step but Pending steps: "Plan stuck: unmet dependencies".
PlanStuck ==
    /\ exec_pc = "loop"
    /\ get_ready_steps(steps) = {}
    /\ PendingSteps(steps) # {}
    /\ exec_pc' = "stuck"
    /\ UNCHANGED <<steps, step_records, contexts>>

InitPlan ==
    /\ now = 0
    /\ USE_MASTER_AGENT = TRUE
    /\ pending_actions = {}
    /\ next_id = 1
    /\ proc = [c \in Callers |-> Idle]
    /\ last_invoked = NoInvocation
    /\ confirm_result = NoConfirmation
    /\ stale = {}
    /\ superseded = {}
    /\ worker = NoWorker
    /\ steps \in Plans
    /\ step_records = <<>>
    /\ contexts = [i \in DOMAIN steps |-> {}]
    /\ exec_pc = "loop"
    /\ MasterOff
    /\ MemoryOff
    /\ CallOff
    /\ AutoOff

NextPlan ==
    \/ ExecuteReadySteps /\ UNCHANGED <<gateVars, worker, masterVars, memVars, callVars, autoVars>>
    \/ \E i \in DOMAIN steps, success \in BOOLEAN :
          StepReturns(i, success) /\ UNCHANGED <<gateVars, worker, masterVars, memVars, callVars, autoVars>>
    \/ \E i \in DOMAIN steps : StepRaises(i) /\ UNCHANGED <<gateVars, worker, masterVars, memVars, callVars, autoVars>>
    \/ GatherReturns /\ UNCHANGED <<gateVars, worker, masterVars, memVars, callVars, autoVars>>
    \/ PlanAllDone /\ UNCHANGED <<gateVars, worker, masterVars, memVars, callVars, autoVars>>
    \/ PlanStuck /\ UNCHANGED <<gateVars, worker, masterVars, memVars, callVars, autoVars>>

SpecPlan == InitPlan /\ [][NextPlan]_vars

\* Every dispatched sub_agent.execute call returns or raises, and the loop
\* of _execute_plan goes on when it can.
SpecPlanFair == SpecPlan /\ WF_vars(NextPlan)

(***************************************************************************)
(* SpecMaster: one run of MasterAgent.process, while another process()     *)
(* call (the automation scheduler's, or the next message's) runs on the    *)
(* same MasterAgent and so on the same WorkingMemory                       *)
(***************************************************************************)
Response(kind, of, llm_called) ==
    [kind |-> kind, of |-> of, llm_called |-> llm_called]

\* WorkingMemory.get_all_results, as the set of the records
get_all_results(records) == {records[k] : k \in DOMAIN records}

\* _create_plan returns a plan with steps; process sets it as the plan of
\* working memory (set_plan leaves step_records alone) and executes it.
CreatePlanReturns(plan) ==
    /\ master_pc = "planning"
    /\ steps' = plan
    /\ contexts' = [i \in DOMAIN plan |-> {}]
    /\ exec_pc' = "loop"
    /\ master_pc' = "executing"
    /\ UNCHANGED <<step_records, response, truncated, other>>

\* _create_plan returns None: the response had no tool call, or the call
\* raised, or finish_reason was "length" and the exception raised for it was
\* caught by _create_plan's own except; process answers with
\* _direct_response.
CreatePlanFails(cut_off) ==
    /\ master_pc = "planning"
    /\ master_pc' = "responded"
    /\ response' = Response("rephrase", {}, FALSE)
    /\ truncated' = (truncated \/ cut_off)
    /\ UNCHANGED <<planVars, other>>

\* A step's sub-agent got finish_reason "length": _call_llm raises, execute
\* returns success=False with the error text, the step fails and is recorded.
StepTruncated(i) ==
    /\ master_pc = "executing"
    /\ StepReturns(i, FALSE)
    /\ truncated' = TRUE
    /\ UNCHANGED <<master_pc, response, other>>

\* _synthesize with no results; then clear_plan.
SynthesizeNoResults ==
    /\ master_pc = "executing"
    /\ exec_pc \in {"done", "stuck"}
    /\ step_records = <<>>
    /\ response' = Response("couldnt_complete", {}, FALSE)
    /\ master_pc' = "responded"
    /\ step_records' = <<>>
    /\ UNCHANGED <<steps, contexts, exec_pc, truncated, other>>

\* _synthesize with one result, a success: its output; then clear_plan.
SynthesizeSingle ==
    /\ master_pc = "executing"
    /\ exec_pc \in {"done", "stuck"}
    /\ Len(step_records) = 1
    /\ step_records[1].success
    /\ response' = Response("output", {step_records[1]}, FALSE)
    /\ master_pc' = "responded"
    /\ step_records' = <<>>
    /\ UNCHANGED <<steps, contexts, exec_pc, truncated, other>>

\* _synthesize asks the Reasoning Service: it answers ("text"), is cut off
\* ("length") or raises ("raise": the outputs of the successes joined, or
\* "Done." when there is none); then clear_plan.
SynthesizeLLM(outcome) ==
    LET results == get_all_results(step_records)
        successes == {r \in results : r.success}
    IN
    /\ master_pc = "executing"
    /\ exec_pc \in {"done", "stuck"}
    /\ step_records # <<>>
    /\ ~(Len(step_records) = 1 /\ step_records[1].success)
    /\ response' =
          CASE outcome = "text" -> Response("synthesized", results, TRUE)
            [] outcome = "length" -> Response("cut_off", {}, TRUE)
            [] outcome = "raise" ->
                  IF successes # {} THEN Response("outputs", successes, TRUE)
                  ELSE Response("done", {}, TRUE)
    /\ truncated' = (truncated \/ outcome = "length")
    /\ master_pc' = "responded"
    /\ step_records' = <<>>
    /\ UNCHANGED <<steps, contexts, exec_pc, other>>

\* The other process() call: its _execute_step records a step of its plan.
OtherRecordStep(step_id, success) ==
    /\ other = "idle"
    /\ master_pc \in {"planning", "executing"}
    /\ other' = "recorded"
    /\ step_records' = Append(step_records, StepRecord("other", 0, step_id, success))
    /\ UNCHANGED <<steps, contexts, exec_pc, master_pc, response, truncated>>

\* The other process() call ends: clear_plan.
OtherClearPlan ==
    /\ other = "recorded"
    /\ master_pc \in {"planning", "executing"}
    /\ other' = "finished"
    /\ step_records' = <<>>
    /\ UNCHANGED <<steps, contexts, exec_pc, master_pc, response, truncated>>

InitMaster ==
    /\ now = 0
    /\ USE_MASTER_AGENT = TRUE
    /\ pending_actions = {}
    /\ next_id = 1
    /\ proc = [c \in Callers |-> Idle]
    /\ last_invoked = NoInvocation
    /\ confirm_result = NoConfirmation
    /\ stale = {}
    /\ superseded = {}
    /\ worker = NoWorker
    /\ steps = NoPlan
    /\ step_records = <<>>
    /\ contexts = <<>>
    /\ exec_pc = "off"
    /\ master_pc = "planning"
    /\ response = NoResponse
    /\ truncated = FALSE
    /\ other = "idle"
    /\ MemoryOff
    /\ CallOff
    /\ AutoOff

NextMaster ==
    \/ \E plan \in Plans :
          CreatePlanReturns(plan) /\ UNCHANGED <<gateVars, worker, memVars, callVars, autoVars>>
    \/ \E cut_off \in BOOLEAN :
          CreatePlanFails(cut_off) /\ UNCHANGED <<gateVars, worker, memVars, callVars, autoVars>>
    \/ ExecuteReadySteps /\ UNCHANGED <<gateVars, worker, masterVars, memVars, callVars, autoVars>>
    \/ \E i \in DOMAIN steps, success \in BOOLEAN :
          StepReturns(i, success) /\ UNCHANGED <<gateVars, worker, masterVars, memVars, callVars, autoVars>>
    \/ \E i \in DOMAIN steps : StepTruncated(i) /\ UNCHANGED <<gateVars, worker, memVars, callVars, autoVars>>
    \/ \E i \in DOMAIN steps :
          StepRaises(i) /\ UNCHANGED <<gateVars, worker, masterVars, memVars, callVars, autoVars>>
    \/ GatherReturns /\ UNCHANGED <<gateVars, worker, masterVars, memVars, callVars, autoVars>>
    \/ PlanAllDone /\ UNCHANGED <<gateVars, worker, masterVars, memVars, callVars, autoVars>>
    \/ PlanStuck /\ UNCHANGED <<gateVars, worker, masterVars, memVars, callVars, autoVars>>
    \/ SynthesizeNoResults /\ UNCHANGED <<gateVars, worker, memVars, callVars, autoVars>>
    \/ SynthesizeSingle /\ UNCHANGED <<gateVars, worker, memVars, callVars, autoVars>>
    \/ \E outcome \in {"text", "length", "raise"} :
          SynthesizeLLM(outcome) /\ UNCHANGED <<gateVars, worker, memVars, callVars, autoVars>>
    \/ \E step_id \in StepIds, success \in BOOLEAN :
          OtherRecordStep(step_id, success) /\ UNCHANGED <<gateVars, worker, memVars, callVars, autoVars>>
    \/ OtherClearPlan /\ UNCHANGED <<gateVars, worker, memVars, callVars, autoVars>>

SpecMaster == InitMaster /\ [][NextMaster]_vars

(***************************************************************************)
(* SpecMemory: a WorkingMemory, its state.json, and process restarts       *)
(***************************************************************************)
Goals == {"g1"}
ContextKeys == {"k1"}
ContextValues == {"a", "b"}

\* WorkingMemory.__init__ before _load
FreshMemory ==
    [current_plan |-> None, step_records |-> <<>>,
     session_notes |-> <<>>, user_context |-> {}]

\* ExecutionPlan.to_dict: the steps go with their results
plan_to_dict(plan) == [goal |-> plan.goal, results |-> plan.results]

\* ExecutionPlan.from_dict: PlanStep.from_dict restores no result
plan_from_dict(data) == [goal |-> data.goal, results |-> FALSE]

\* the state dict that _save writes
StateOf(wm) ==
    [current_plan |-> IF wm.current_plan = None THEN None
                      ELSE plan_to_dict(wm.current_plan),
     step_records |-> wm.step_records,
     session_notes |-> wm.session_notes,
     user_context |-> wm.user_context]

\* a _save that writes nothing
save_skipped(wm, file) == file

\* WorkingMemory._save
save(wm, file) == StateOf(wm)

\* WorkingMemory.__init__: the defaults, then _load; step_records are not
\* loaded.
load(file) ==
    IF file = None THEN FreshMemory
    ELSE [current_plan |-> IF file.current_plan = None THEN None
                           ELSE plan_from_dict(file.current_plan),
          step_records |-> <<>>,
          session_notes |-> file.session_notes,
          user_context |-> file.user_context]

\* self.session_notes[-20:]
KeepLast(notes) ==
    IF Len(notes) > NOTES_KEPT
    THEN SubSeq(notes, Len(notes) - NOTES_KEPT + 1, Len(notes))
    ELSE notes

Mutate(op, wm) ==
    /\ scratchpad' = wm
    /\ state_file' = save(wm, state_file)
    /\ mem_op' = op

set_plan(goal) ==
    Mutate("set_plan",
           [scratchpad EXCEPT !.current_plan = [goal |-> goal, results |-> FALSE]])

clear_plan ==
    Mutate("clear_plan",
           [scratchpad EXCEPT !.current_plan = None, !.step_records = <<>>])

\* _execute_step has put the result on the step, which is a step of the
\* current plan when there is one, and records it.
record_step(step_id, success) ==
    /\ Len(scratchpad.step_records) < MaxRecords
    /\ Mutate("record_step",
              [scratchpad EXCEPT
                 !.current_plan = IF @ = None THEN None ELSE [@ EXCEPT !.results = TRUE],
                 !.step_records = Append(@, StepRecord("this", 0, step_id, success))])

\* The note is its serial number.
add_note ==
    LET serial == IF scratchpad.session_notes = <<>> THEN 1
                  ELSE scratchpad.session_notes[Len(scratchpad.session_notes)] + 1
    IN
    /\ serial <= MaxNotes
    /\ Mutate("add_note",
              [scratchpad EXCEPT !.session_notes = KeepLast(Append(@, serial))])

update_user_context(key, value) ==
    Mutate("update_user_context",
           [scratchpad EXCEPT !.user_context = DictSet(@, key, value)])

reset == Mutate("reset", FreshMemory)

\* The process ends and a new one constructs its WorkingMemory.
Restart ==
    /\ scratchpad' = load(state_file)
    /\ mem_op' = "restart"
    /\ UNCHANGED state_file

InitMemory ==
    /\ now = 0
    /\ USE_MASTER_AGENT = TRUE
    /\ pending_actions = {}
    /\ next_id = 1
    /\ proc = [c \in Callers |-> Idle]
    /\ last_invoked = NoInvocation
    /\ confirm_result = NoConfirmation
    /\ stale = {}
    /\ superseded = {}
    /\ worker = NoWorker
    /\ steps = NoPlan
    /\ step_records = <<>>
    /\ contexts = <<>>
    /\ exec_pc = "off"
    /\ MasterOff
    /\ CallOff
    /\ AutoOff
    /\ scratchpad = FreshMemory
    /\ state_file = None
    /\ mem_op = "init"

NextMemory ==
    \/ \E goal \in Goals :
          set_plan(goal) /\ UNCHANGED <<gateVars, worker, planVars, masterVars, callVars, autoVars>>
    \/ clear_plan /\ UNCHANGED <<gateVars, worker, planVars, masterVars, callVars, autoVars>>
    \/ \E step_id \in StepIds, success \in BOOLEAN :
          record_step(step_id, success)
          /\ UNCHANGED <<gateVars, worker, planVars, masterVars, callVars, autoVars>>
    \/ add_note /\ UNCHANGED <<gateVars, worker, planVars, masterVars, callVars, autoVars>>
    \/ \E key \in ContextKeys, value \in ContextValues :
          update_user_context(key, value)
          /\ UNCHANGED <<gateVars, worker, planVars, masterVars, callVars, autoVars>>
    \/ reset /\ UNCHANGED <<gateVars, worker, planVars, masterVars, callVars, autoVars>>
    \/ Restart /\ UNCHANGED <<gateVars, worker, planVars, masterVars, callVars, autoVars>>

SpecMemory == InitMemory /\ [][NextMemory]_vars

(***************************************************************************)
(* Claims about the confirmation gate and the caller API (Spec)            *)
(***************************************************************************)
\* C1: a tool whose name is on the sensitive allow-list is executed only by
\* handle_confirmation(user, True) on the pending action confirm_action
\* returned; no worker loop executes one directly.  The code does not keep
\* this: BaseSubAgent.execute hands every requested tool call to
\* _execute_tool, and FinanceSubAgent maps settle_loan.
C1_SensitiveOnlyViaConfirm ==
    last_invoked.action_name \in SENSITIVE_ACTIONS => last_invoked.via = "confirm"

\* C7: a pending action is consumed by at most one confirm.  Every
\* handle_confirmation(user, True) leaves the gate without an entry for the
\* user, so that a second one with no request in between finds nothing; if
\* it finds a live entry it executes that entry's action; if it finds
\* nothing (or an expired entry) it returns "Action expired." and executes
\* no tool.
C7_ConfirmConsumesOnce ==
    [][\A u \in Users, ok \in BOOLEAN :
          HandleConfirmationYes(u, ok) =>
             /\ ItemsOf(pending_actions', u) = {}
             /\ Found(pending_actions, u, now) = "live" =>
                   /\ confirm_result'.text \in {"Done!", "Failed"}
                   /\ last_invoked'.via = "confirm"
                   /\ last_invoked'.user_id = u
                   /\ last_invoked'.action_id \in PendingIds(pending_actions, u)
             /\ Found(pending_actions, u, now) # "live" =>
                   /\ confirm_result'.text = "Action expired."
                   /\ last_invoked' = last_invoked]_vars

\* Two confirmations of one user in a row: the first executed the pending
\* action, the second found nothing and answered "Action expired.".
C7_Witness ==
    /\ next_id = 2
    /\ last_invoked.via = "confirm"
    /\ last_invoked.action_id = 1
    /\ confirm_result = [user_id |-> last_invoked.user_id, found |-> "nothing",
                         text |-> "Action expired."]

\* C8: every pending action expires 5 minutes after its creation; a
\* handle_confirmation(user, True) later than that returns "Action
\* expired.", executes no tool and removes the entry; the passing of time
\* alone removes nothing from the gate.
C8_ExpiredNotConfirmable ==
    /\ [](\A p \in pending_actions :
             p.value.expires_at = p.value.created_at + TTL_MINUTES)
    /\ [][\A u \in Users, ok \in BOOLEAN :
             (/\ HandleConfirmationYes(u, ok)
              /\ \E p \in ItemsOf(pending_actions, u) :
                    now > p.value.created_at + TTL_MINUTES)
             => /\ confirm_result'.text = "Action expired."
                /\ last_invoked' = last_invoked
                /\ ItemsOf(pending_actions', u) = {}]_vars
    /\ [][now' # now => pending_actions' = pending_actions]_vars

\* A confirmation found an expired entry, six minutes or more after the
\* only request of the behaviour, and answered "Action expired.".
C8_Witness ==
    /\ now > TTL_MINUTES
    /\ next_id = 2
    /\ confirm_result.found = "expired"
    /\ confirm_result.text = "Action expired."
    /\ ItemsOf(pending_actions, confirm_result.user_id) = {}
    /\ last_invoked.via # "confirm"

\* C9: the gate holds at most one pending action per user; an entry
\* overwritten by a later request of the same user is in the gate no more
\* and is never the one a confirmation executes.
C9_LastRequestWins ==
    /\ \A u \in Users : Cardinality(ItemsOf(pending_actions, u)) <= 1
    /\ \A u \in Users : PendingIds(pending_actions, u) \cap superseded = {}
    /\ last_invoked.via = "confirm" => last_invoked.action_id \notin superseded

\* Request 2 overwrote request 1 of the same user, and the confirmation
\* executed request 2.
C9_Witness ==
    /\ superseded = {1}
    /\ last_invoked.via = "confirm"
    /\ last_invoked.action_id = 2

\* C10: a pending action that is in the gate when a process() call of its
\* user begins is removed by that call before it does anything else, and no
\* confirmation executes it afterwards.
C10_NewMessageCancelsPending ==
    /\ \A u \in Users : \A i \in PendingIds(pending_actions, u) : <<u, i>> \notin stale
    /\ last_invoked.via = "confirm" =>
          <<last_invoked.user_id, last_invoked.action_id>> \notin stale

\* While the scheduler's process() call for a user is under way, having
\* begun with request 1 pending, the user's confirmation found nothing.
C10_Witness ==
    /\ proc["sched"].pc # "idle"
    /\ stale = {<<SchedulerUser, 1>>}
    /\ next_id = 2
    /\ confirm_result = [user_id |-> SchedulerUser, found |-> "nothing",
                         text |-> "Action expired."]


(***************************************************************************)
(* Claims about the worker loop (SpecWorker)                               *)
(***************************************************************************)
\* How many tool calls of the latest response the for loop has handled.
HandledOfResponse == worker.next_tc - 1

HasSensitive(tool_calls) ==
    \E i \in DOMAIN tool_calls : requires_confirmation(tool_calls[i])

\* C2: when a response requests a sensitive action, execute returns with a
\* request for confirmation and none of the tool calls of that response is
\* executed.  The code does not keep this: the loop never asks
\* requires_confirmation and executes every tool call.
C2_SensitiveResponseNotExecuted ==
    (worker.pc # "off" /\ HasSensitive(worker.tool_calls)) =>
        /\ HandledOfResponse = 0
        /\ worker.pc = "returned" => worker.result.requires_user_input

StatusMoves ==
    {<<"pending", "running">>, <<"running", "completed">>, <<"running", "failed">>}

\* C3: along a run of _execute_plan the plan keeps its steps, and a step's
\* status only moves Pending -> Running -> Completed or Pending -> Running
\* -> Failed: nothing reverts, and a Completed or Failed step never changes
\* status again.
C3_StatusMonotone ==
    [][/\ DOMAIN steps' = DOMAIN steps
       /\ \A i \in DOMAIN steps :
            /\ steps'[i].id = steps[i].id
            /\ steps'[i].status # steps[i].status =>
                  <<steps[i].status, steps'[i].status>> \in StatusMoves]_vars

\* A run ended with one step Completed and another Failed.
C3_Witness ==
    /\ exec_pc \in {"done", "stuck"}
    /\ \E i, j \in DOMAIN steps :
          steps[i].status = "completed" /\ steps[j].status = "failed"

\* C4: whenever _execute_plan marks a step Running, every id in the step's
\* depends_on is, at that moment, the id of another step of the plan whose
\* status is Completed.
C4_RunningOnlyAfterDependencies ==
    [][\A i \in DOMAIN steps :
          (steps[i].status = "pending" /\ steps'[i].status = "running") =>
             \A dep \in steps[i].depends_on :
                \E j \in DOMAIN steps \ {i} :
                   steps[j].id = dep /\ steps[j].status = "completed"]_vars

\* A step with a dependency is Running.
C4_Witness ==
    \E i \in DOMAIN steps :
       steps[i].status = "running" /\ steps[i].depends_on # {}

\* The steps that step i depends on, directly or through other steps.
RECURSIVE DependsOnClosure(_, _)
DependsOnClosure(known, rounds) ==
    IF rounds = 0 THEN known
    ELSE DependsOnClosure(
            known \cup {j \in DOMAIN steps :
                          \E k \in known : steps[j].id \in steps[k].depends_on},
            rounds - 1)

DependsOn(i) ==
    DependsOnClosure({j \in DOMAIN steps : steps[j].id \in steps[i].depends_on},
                     Len(steps))

\* C5: a step that depends, directly or transitively, on a Failed step
\* stays Pending, and the run then ends in the stuck branch.  The code does
\* not keep this for a plan in which two steps share an id: the Completed
\* one satisfies the dependency on the Failed one.
C5_DependentsOfFailedStayPending ==
    \A i \in DOMAIN steps :
       (\E b \in DependsOn(i) : steps[b].status = "failed") =>
          /\ steps[i].status = "pending"
          /\ exec_pc # "done"


(***************************************************************************)
(* Claims about MasterAgent.process (SpecMaster)                           *)
(***************************************************************************)
\* The record _execute_step made for step i of the executed plan.
RecordOf(i) == StepRecord("this", i, steps[i].id, steps[i].status = "completed")

\* C11: for a plan of exactly one step, which succeeded, _synthesize
\* returns the output of that step and makes no Reasoning Service call.
\* The code does not keep this: _synthesize reads the step records of the
\* shared working memory, not the plan, and another process() call may have
\* added a record to them or cleared them.
C11_SingleStepOutputVerbatim ==
    (/\ master_pc = "responded"
     /\ Len(steps) = 1
     /\ steps[1].status = "completed") =>
        /\ response.kind = "output"
        /\ response.of = {RecordOf(1)}
        /\ ~response.llm_called

\* C12: whenever a step of the executed plan ended Failed, the response is
\* produced from step results that include that failure, never from the
\* successful outputs alone nor a bare success text.  The code does not
\* keep this: when the synthesis call raises, the fallback joins the
\* successful outputs or answers "Done.", and a step that failed by an
\* exception is not recorded at all.
C12_FailureReachesResponse ==
    master_pc = "responded" =>
        \A i \in DOMAIN steps :
            steps[i].status = "failed" =>
                \/ response.kind = "cut_off"
                \/ /\ response.kind \in {"synthesized", "couldnt_complete"}
                   /\ response.kind = "synthesized" => RecordOf(i) \in response.of

\* C13: whenever _execute_plan ended in the stuck branch, the response is
\* the "could not complete your request" outcome, never an answer as if the
\* request had been carried out.  The code does not keep this: the stuck
\* branch only logs, and _synthesize answers from the recorded results.
C13_StuckIsSurfaced ==
    (master_pc = "responded" /\ exec_pc = "stuck") =>
        response.kind \in {"couldnt_complete", "cut_off"}

\* C14: whenever a Reasoning Service call of the run (planning, a worker
\* iteration, synthesis) was cut off, the response is the "response was cut
\* off" error.  The code does not keep this: _create_plan catches its own
\* truncation exception and process answers "Could you rephrase?"; a
\* worker's truncation becomes one failed step result among the others.
C14_TruncationIsSurfaced ==
    (master_pc = "responded" /\ truncated) => response.kind = "cut_off"

\* C15: the context of every dispatched step holds results only of steps of
\* the same plan whose ids are in the step's depends_on.  The code does not
\* keep this: records carry no plan, and get_context_for_step matches the
\* step_id of every record of the shared working memory.
C15_ContextOnlyFromDependencies ==
    \A i \in DOMAIN contexts :
        \A r \in contexts[i] :
            /\ r.plan = "this"
            /\ r.step_id \in steps[i].depends_on


(***************************************************************************)
(* Claims about the working memory (SpecMemory)                            *)
(***************************************************************************)
Mutations ==
    {"set_plan", "clear_plan", "record_step", "add_note", "update_user_context",
     "reset"}

C17_StepHistorySurvivesRestart ==
    (mem_op = "restart" /\ state_file # None) =>
        scratchpad.step_records = state_file.step_records


(***************************************************************************)
(* Claims about the scheduling of a plan (SpecPlan, SpecPlanFair)          *)
(***************************************************************************)
\* C18: for every plan, with cyclic, self-referential or dangling
\* dependencies too, _execute_plan terminates when every dispatched worker
\* call returns; when it has, every step is Pending, Completed or Failed,
\* and it ended as done exactly when no step is Pending.
C18_ExecuteTerminates ==
    /\ <>(exec_pc \in {"done", "stuck"})
    /\ [](exec_pc \in {"done", "stuck"} =>
            /\ \A i \in DOMAIN steps :
                  steps[i].status \in {"pending", "completed", "failed"}
            /\ (exec_pc = "done") <=>
                  (\A i \in DOMAIN steps : steps[i].status # "pending"))

\* A run over a plan whose steps wait for each other ended stuck, nothing
\* having run.
C18_Witness ==
    /\ exec_pc = "stuck"
    /\ Len(steps) >= 2
    /\ \A i \in DOMAIN steps : steps[i].status = "pending"

\* C19: steps are dispatched in waves: the steps of the ready set are
\* marked Running together, and no step is marked Running while a step
\* dispatched before is still Running.
C19_DispatchInWaves ==
    [][(\E i \in DOMAIN steps :
           steps[i].status = "pending" /\ steps'[i].status = "running") =>
          /\ \A j \in DOMAIN steps : steps[j].status # "running"
          /\ \A j \in get_ready_steps(steps) : steps'[j].status = "running"]_vars

\* A step is still Running while a sibling of its wave has completed, whose
\* dependent is still Pending.
C19_Witness ==
    \E i, j, k \in DOMAIN steps :
       /\ steps[i].status = "running"
       /\ steps[j].status = "completed"
       /\ steps[k].status = "pending"
       /\ steps[k].depends_on = {steps[j].id}
       /\ steps[i].id # steps[j].id

\* Every depends_on id of step i is the id of a step, and every step that i
\* depends on, directly or through other steps, is Completed.
DependenciesCompleted(i) ==
    /\ \A dep \in steps[i].depends_on : \E j \in DOMAIN steps : steps[j].id = dep
    /\ \A j \in DependsOn(i) : steps[j].status = "completed"

\* C20: a failed step does not abort the plan: a step whose direct and
\* transitive dependencies all end Completed is dispatched and ends
\* Completed or Failed, whatever fails among the steps it does not depend
\* on.
C20_IndependentStepsStillRun ==
    /\ <>(exec_pc \in {"done", "stuck"})
    /\ [](exec_pc \in {"done", "stuck"} =>
            \A i \in DOMAIN steps :
               DependenciesCompleted(i) => steps[i].status \in {"completed", "failed"})

\* A run ended with a Failed step and a Completed step that had a
\* dependency.
C20_Witness ==
    /\ exec_pc \in {"done", "stuck"}
    /\ \E i, j \in DOMAIN steps :
          /\ steps[i].status = "failed"
          /\ steps[j].status = "completed"
          /\ steps[j].depends_on # {}
          /\ i \notin DependsOn(j)


(***************************************************************************)
(* Claims about the tool calls of a worker run (SpecWorker)                *)
(***************************************************************************)
Mapped(func_name) == func_name \in tool_mapping

AgentResponse(user_id, needs_confirmation, via, at) ==
    [returned |-> TRUE, user_id |-> user_id,
     needs_confirmation |-> needs_confirmation, via |-> via, at |-> at]

\* process() starts; on a fast route _execute_fast_path builds the worker
\* and awaits its execute.
CallStart(user_id, fast_route) ==
    /\ process_result = NoResult
    /\ worker = NoWorker
    /\ ProcessStart("bot", user_id, fast_route)
    /\ worker' = IF fast_route THEN WorkerStart ELSE worker
    /\ UNCHANGED process_result

\* One await of the fast-path worker's Reasoning Service.
FastWorkerCallsLLM ==
    /\ proc["bot"].pc = "fast"
    /\ \/ \E tcs \in WorkerToolCallLists : WorkerRequestsTools(tcs)
       \/ WorkerFinalAnswer
       \/ WorkerLLMRaises
       \/ WorkerIterationLimit
    /\ UNCHANGED <<gateVars, process_result>>

\* The fast-path worker handles one tool call: tool.execute runs when the
\* mapping has the name. The worker never asks the gate.
FastWorkerExecuteTool ==
    LET func_name == worker.tool_calls[worker.next_tc] IN
    /\ proc["bot"].pc = "fast"
    /\ WorkerExecuteTool
    /\ last_invoked' = IF func_name \in tool_mapping
                       THEN Invocation(proc["bot"].user_id, func_name, "worker", 0)
                       ELSE last_invoked
    /\ UNCHANGED <<now, USE_MASTER_AGENT, pending_actions, next_id, proc,
                   confirm_result, stale, superseded, process_result>>

\* _execute_fast_path after agent.execute returned: the output as the
\* reply on success; else it raises, process() logs "Fast-path failed,
\* using master" and goes on with the same message.
FastPathEnds ==
    /\ proc["bot"].pc = "fast"
    /\ worker.pc = "returned"
    /\ FastPathReturn("bot", worker.result.success)
    /\ process_result' = IF worker.result.success
                         THEN AgentResponse(proc["bot"].user_id, FALSE, "fast", now)
                         ELSE process_result
    /\ UNCHANGED worker

\* A worker of the master agent's plan invokes an action.
PlanWorkerInvoke(action_name) ==
    /\ proc["bot"].pc = "master"
    /\ WorkerInvoke("bot", action_name)
    /\ UNCHANGED <<worker, process_result>>

\* master_agent.process returned; process() hands on its text and its
\* needs_confirmation.
MasterReplies(needs_confirmation) ==
    /\ MasterReturn("bot", needs_confirmation)
    /\ process_result' = AgentResponse(proc["bot"].user_id, needs_confirmation,
                                       "master", now)
    /\ UNCHANGED worker

\* _process_legacy returns the confirmation request for a sensitive call.
LegacyAsksConfirmation(tool_calls) ==
    /\ LegacyNeedsConfirmation("bot", tool_calls)
    /\ process_result' = AgentResponse(proc["bot"].user_id, TRUE, "legacy", now)
    /\ UNCHANGED worker

\* _process_legacy returns the final text.
LegacyReplies ==
    /\ LegacyFinal("bot")
    /\ process_result' = AgentResponse(proc["bot"].user_id, FALSE, "legacy", now)
    /\ UNCHANGED worker

\* The buttons shown with the reply: the user presses one.
PressYes(tool_success) ==
    /\ process_result # NoResult
    /\ HandleConfirmationYes(process_result.user_id, tool_success)
    /\ UNCHANGED <<worker, process_result>>

PressNo ==
    /\ process_result # NoResult
    /\ HandleConfirmationNo(process_result.user_id)
    /\ UNCHANGED <<worker, process_result>>

InitProcess ==
    /\ now = 0
    /\ USE_MASTER_AGENT \in BOOLEAN
    /\ pending_actions = {}
    /\ next_id = 1
    /\ proc = [c \in Callers |-> Idle]
    /\ last_invoked = NoInvocation
    /\ confirm_result = NoConfirmation
    /\ stale = {}
    /\ superseded = {}
    /\ worker = NoWorker
    /\ steps = NoPlan
    /\ step_records = <<>>
    /\ contexts = <<>>
    /\ exec_pc = "off"
    /\ MasterOff
    /\ MemoryOff
    /\ CallOff
    /\ AutoOff

NextProcess ==
    \/ \E u \in Users, f \in BOOLEAN :
          CallStart(u, f) /\ UNCHANGED <<planVars, masterVars, memVars, autoVars>>
    \/ FastWorkerCallsLLM /\ UNCHANGED <<planVars, masterVars, memVars, autoVars>>
    \/ FastWorkerExecuteTool /\ UNCHANGED <<planVars, masterVars, memVars, autoVars>>
    \/ FastPathEnds /\ UNCHANGED <<planVars, masterVars, memVars, autoVars>>
    \/ \E a \in ActionNames :
          PlanWorkerInvoke(a) /\ UNCHANGED <<planVars, masterVars, memVars, autoVars>>
    \/ \E n \in BOOLEAN :
          MasterReplies(n) /\ UNCHANGED <<planVars, masterVars, memVars, autoVars>>
    \/ \E tcs \in ToolCallLists :
          LegacyAsksConfirmation(tcs) /\ UNCHANGED <<planVars, masterVars, memVars, autoVars>>
    \/ \E tcs \in ToolCallLists :
          LegacyExecuteTools("bot", tcs)
          /\ UNCHANGED <<worker, process_result, planVars, masterVars, memVars, autoVars>>
    \/ LegacyReplies /\ UNCHANGED <<planVars, masterVars, memVars, autoVars>>
    \/ \E ok \in BOOLEAN :
          PressYes(ok) /\ UNCHANGED <<planVars, masterVars, memVars, autoVars>>
    \/ PressNo /\ UNCHANGED <<planVars, masterVars, memVars, autoVars>>
    \/ Tick /\ UNCHANGED <<worker, process_result, planVars, masterVars, memVars, autoVars>>

SpecProcess == InitProcess /\ [][NextProcess]_vars


(***************************************************************************)
(* Claims about one process() call (SpecProcess)                           *)
(***************************************************************************)
\* C21: once a worker run for the message has invoked an action and failed,
\* process() starts no further plan or tool loop for the same message.
C21_NoRunAfterFailedRun ==
    (/\ worker.pc = "returned"
     /\ ~worker.result.success
     /\ worker.n_executed > 0)
    => proc["bot"].pc \notin {"master", "legacy"}

\* C28: at the moment process() has returned needs_confirmation = true for a
\* user, the gate holds a live pending action for that user and no sensitive
\* action has been invoked, so that a confirmation executes it.
C28_ConfirmationIsPending ==
    (/\ process_result # NoResult
     /\ process_result.needs_confirmation
     /\ process_result.at = now
     /\ confirm_result = NoConfirmation)
    => /\ Found(pending_actions, process_result.user_id, now) = "live"
       /\ last_invoked.action_name \notin SENSITIVE_ACTIONS


(***************************************************************************)
(* Claims about the planner output (SpecPlan)                              *)
(***************************************************************************)
IdsOf(plan_steps) == {plan_steps[i].id : i \in DOMAIN plan_steps}

\* C23: a plan of which _execute_plan has dispatched a step has unique step
\* ids, and every depends_on id is the id of a step of the plan.
C23_ExecutedPlanIsWellFormed ==
    (\E i \in DOMAIN steps : steps[i].status # "pending") =>
        /\ \A i, j \in DOMAIN steps : steps[i].id = steps[j].id => i = j
        /\ \A i \in DOMAIN steps : steps[i].depends_on \subseteq IdsOf(steps)


(***************************************************************************)
(* Claims about _synthesize (SpecMaster)                                   *)
(***************************************************************************)
\* C24: when the plan is not exactly one completed step, the reply of
\* _synthesize comes from a Reasoning Service call and is never one step's
\* output passed through (no other process() call has touched the records).
C24_MergedUnlessOneSucceededStep ==
    (/\ master_pc = "responded"
     /\ response.kind # "rephrase"
     /\ other = "idle"
     /\ ~(Len(steps) = 1 /\ steps[1].status = "completed"))
    => /\ response.llm_called
       /\ response.kind # "output"


\* C25: when the Reasoning Service call of _synthesize raised, the reply is
\* the outputs of the successful results joined, or, when there is none, the
\* "could not complete" text.
C25_FallbackOfSynthesis ==
    (/\ master_pc = "responded"
     /\ response.llm_called
     /\ response.kind \notin {"synthesized", "cut_off"})
    => \/ response.kind = "outputs" /\ response.of # {}
       \/ response.kind = "couldnt_complete"


(***************************************************************************)
(* SpecWave: one _execute_plan run with the state.json that set_plan and   *)
(* record_step write                                                       *)
(***************************************************************************)
\* The WorkingMemory of the run: the plan of process(), the records so far.
WaveMemory(records) ==
    [current_plan |-> [goal |-> "g1", results |-> records # <<>>],
     step_records |-> records,
     session_notes |-> <<>>,
     user_context |-> {}]

\* _execute_step after sub_agent.execute returned: the status, then
\* record_step, which appends and saves with no await in between.
WaveStepReturns(i, success) ==
    /\ StepReturns(i, success)
    /\ state_file' = save(WaveMemory(step_records'), state_file)
    /\ scratchpad' = WaveMemory(step_records')
    /\ mem_op' = "record_step"

\* process() has called set_plan, which saved.
InitWave ==
    /\ now = 0
    /\ USE_MASTER_AGENT = TRUE
    /\ pending_actions = {}
    /\ next_id = 1
    /\ proc = [c \in Callers |-> Idle]
    /\ last_invoked = NoInvocation
    /\ confirm_result = NoConfirmation
    /\ stale = {}
    /\ superseded = {}
    /\ worker = NoWorker
    /\ steps \in Plans
    /\ step_records = <<>>
    /\ contexts = [i \in DOMAIN steps |-> {}]
    /\ exec_pc = "loop"
    /\ MasterOff
    /\ scratchpad = WaveMemory(<<>>)
    /\ state_file = save(WaveMemory(<<>>), None)
    /\ mem_op = "set_plan"
    /\ CallOff
    /\ AutoOff

NextWave ==
    \/ ExecuteReadySteps /\ UNCHANGED <<gateVars, worker, masterVars, memVars, callVars, autoVars>>
    \/ \E i \in DOMAIN steps, success \in BOOLEAN :
          WaveStepReturns(i, success) /\ UNCHANGED <<gateVars, worker, masterVars, callVars, autoVars>>
    \/ \E i \in DOMAIN steps : StepRaises(i) /\ UNCHANGED <<gateVars, worker, masterVars, memVars, callVars, autoVars>>
    \/ GatherReturns /\ UNCHANGED <<gateVars, worker, masterVars, memVars, callVars, autoVars>>
    \/ PlanAllDone /\ UNCHANGED <<gateVars, worker, masterVars, memVars, callVars, autoVars>>
    \/ PlanStuck /\ UNCHANGED <<gateVars, worker, masterVars, memVars, callVars, autoVars>>

SpecWave == InitWave /\ [][NextWave]_vars


(***************************************************************************)
(* Claims about the records of a wave (SpecWave)                           *)
(***************************************************************************)
\* The records of the history that were made for step i.
RecordsFor(records, i) == {k \in DOMAIN records : records[k].step = i}

\* The history has at most one record for a step; a Completed step has its
\* record; a record tells the status its step took; state.json holds the
\* same records.
RecordsIntact ==
    /\ \A i \in DOMAIN steps : Cardinality(RecordsFor(step_records, i)) <= 1
    /\ \A i \in DOMAIN steps :
          steps[i].status = "completed" =>
              \E k \in RecordsFor(step_records, i) : step_records[k].success
    /\ \A k \in DOMAIN step_records :
          /\ step_records[k].step_id = steps[step_records[k].step].id
          /\ steps[step_records[k].step].status =
                 IF step_records[k].success THEN "completed" ELSE "failed"
    /\ state_file # None
    /\ state_file.step_records = step_records

\* A change of the history appends one record and keeps the earlier ones.
RecordsOnlyAppended ==
    step_records' # step_records =>
        /\ Len(step_records') = Len(step_records) + 1
        /\ SubSeq(step_records', 1, Len(step_records)) = step_records

C27_SynthesisOfOwnResults ==
    (/\ master_pc = "responded"
     /\ response.kind \notin {"rephrase", "cut_off"})
    => /\ \A r \in response.of : r.plan = "this"
       /\ \A i \in DOMAIN steps :
             steps[i].status = "completed" => RecordOf(i) \in response.of


(***************************************************************************)
(* Claims about the records _synthesize finds (SpecPlan)                   *)
(***************************************************************************)
\* C29: when _execute_plan has ended and _synthesize runs, every Completed
\* or Failed step has exactly one record, whose success flag tells whether
\* the step is Completed, and a Pending step has none.
C29_OneRecordPerFinishedStep ==
    exec_pc \in {"done", "stuck"} =>
        \A i \in DOMAIN steps :
            /\ steps[i].status \in {"completed", "failed"} =>
                  /\ Cardinality(RecordsFor(step_records, i)) = 1
                  /\ \A k \in RecordsFor(step_records, i) :
                        step_records[k].success = (steps[i].status = "completed")
            /\ steps[i].status = "pending" => RecordsFor(step_records, i) = {}


(***************************************************************************)
(* SpecAutomations: automations.json, one scheduler (check_and_run_due,    *)
(* once a minute) and the store's tool calls made by message handlers      *)
(***************************************************************************)
Schedules == {"on_start", "once"}

\* The dict _create_automation builds.  last_run goes with run_count: it is
\* None exactly when run_count is 0.  delete_me is the "_delete_me" mark,
\* which only a scheduler pass sets, on its own list.
Automation(id, schedule) ==
    [id |-> id, schedule |-> schedule, enabled |-> TRUE, run_count |-> 0,
     delete_me |-> FALSE]

\* The index of the first automation with the id, 0 when there is none.
IndexOf(automations, id) ==
    IF \E k \in DOMAIN automations : automations[k].id = id
    THEN CHOOSE k \in DOMAIN automations :
            /\ automations[k].id = id
            /\ \A l \in DOMAIN automations : automations[l].id = id => k <= l
    ELSE 0

\* automations.pop(i)
Pop(automations, i) ==
    SubSeq(automations, 1, i - 1) \o SubSeq(automations, i + 1, Len(automations))

\* should_run of check_and_run_due: enabled, and never run ("on_start") or
\* its time reached ("once": the time of the model's automations has come).
should_run(a) ==
    /\ a.enabled
    /\ a.schedule = "on_start" => a.run_count = 0

NotMarked(a) == ~a.delete_me

\* What a tool call during a pass left of an id: present or not, enabled or
\* not.  A later call on the same id replaces the note.
Note(changed, id, present, enabled) ==
    {c \in changed : c.id # id}
        \cup {[id |-> id, present |-> present, enabled |-> enabled]}

\* A handler runs only while the scheduler is not running: between passes
\* or while a pass awaits _execute_automation.
HandlerMayRun == check_pass.pc \in {"idle", "suspended"}

NotedDuring(changed, id, present, enabled) ==
    IF check_pass.pc = "suspended" THEN Note(changed, id, present, enabled)
    ELSE changed

\* _create_automation: load, append, save, with no await in between.
create_automation(schedule) ==
    LET id == store_ops.created + 1 IN
    /\ HandlerMayRun
    /\ id <= MaxAutomations
    /\ automations_file' = Append(automations_file, Automation(id, schedule))
    /\ store_ops' = [created |-> id,
                     changed |-> NotedDuring(store_ops.changed, id, TRUE, TRUE)]
    /\ UNCHANGED check_pass

\* _toggle_automation: load, set enabled on the first match, save.
toggle_automation(id, enabled) ==
    LET k == IndexOf(automations_file, id) IN
    /\ HandlerMayRun
    /\ k # 0
    /\ automations_file' = [automations_file EXCEPT ![k].enabled = enabled]
    /\ store_ops' = [store_ops EXCEPT
                       !.changed = NotedDuring(@, id, TRUE, enabled)]
    /\ UNCHANGED check_pass

\* _delete_automation: load, pop the first match, save.
delete_automation(id) ==
    LET k == IndexOf(automations_file, id) IN
    /\ HandlerMayRun
    /\ k # 0
    /\ automations_file' = Pop(automations_file, k)
    /\ store_ops' = [store_ops EXCEPT
                       !.changed = NotedDuring(@, id, FALSE, FALSE)]
    /\ UNCHANGED check_pass

\* check_and_run_due starts: automations = self._load_automations().
CheckStart ==
    /\ check_pass.pc = "idle"
    /\ check_pass' = [pc |-> "loop", automations |-> automations_file,
                      idx |-> 1, results |-> 0]
    /\ store_ops' = [store_ops EXCEPT !.changed = {}]
    /\ UNCHANGED automations_file

\* The for loop passes an automation that is not due.
CheckSkip ==
    /\ check_pass.pc = "loop"
    /\ check_pass.idx <= Len(check_pass.automations)
    /\ ~should_run(check_pass.automations[check_pass.idx])
    /\ check_pass' = [check_pass EXCEPT !.idx = @ + 1]
    /\ UNCHANGED <<automations_file, store_ops>>

\* The for loop finds a due automation: await self._execute_automation(a).
CheckExecute ==
    /\ check_pass.pc = "loop"
    /\ check_pass.idx <= Len(check_pass.automations)
    /\ should_run(check_pass.automations[check_pass.idx])
    /\ check_pass' = [check_pass EXCEPT !.pc = "suspended"]
    /\ UNCHANGED <<automations_file, store_ops>>

\* _execute_automation returned: last_run, run_count and the result; a
\* "once" automation is disabled and marked for deletion.
CheckResume ==
    LET i == check_pass.idx
        a == check_pass.automations[i]
        ran == [a EXCEPT !.run_count = @ + 1,
                         !.enabled = IF a.schedule = "once" THEN FALSE ELSE @,
                         !.delete_me = (a.schedule = "once")]
    IN
    /\ check_pass.pc = "suspended"
    /\ check_pass' = [check_pass EXCEPT !.pc = "loop",
                                        !.automations[i] = ran,
                                        !.idx = i + 1,
                                        !.results = @ + 1]
    /\ UNCHANGED <<automations_file, store_ops>>

\* The for loop is over: with results, the list of the pass, without the
\* marked automations, is saved; check_and_run_due returns.
CheckFinish ==
    /\ check_pass.pc = "loop"
    /\ check_pass.idx > Len(check_pass.automations)
    /\ automations_file' = IF check_pass.results > 0
                           THEN SelectSeq(check_pass.automations, NotMarked)
                           ELSE automations_file
    /\ check_pass' = [check_pass EXCEPT !.pc = "done"]
    /\ UNCHANGED store_ops

\* automation_scheduler: await asyncio.sleep(60), until the next pass.
CheckSleep ==
    /\ check_pass.pc = "done"
    /\ check_pass' = [pc |-> "idle"]
    /\ UNCHANGED <<automations_file, store_ops>>

\* The store at startup: the automations created so far, none run yet.
InitialStores ==
    {<<>>} \cup {<<Automation(1, s)>> : s \in Schedules}

InitAutomations ==
    /\ now = 0
    /\ USE_MASTER_AGENT = TRUE
    /\ pending_actions = {}
    /\ next_id = 1
    /\ proc = [c \in Callers |-> Idle]
    /\ last_invoked = NoInvocation
    /\ confirm_result = NoConfirmation
    /\ stale = {}
    /\ superseded = {}
    /\ worker = NoWorker
    /\ steps = NoPlan
    /\ step_records = <<>>
    /\ contexts = <<>>
    /\ exec_pc = "off"
    /\ MasterOff
    /\ MemoryOff
    /\ CallOff
    /\ automations_file \in InitialStores
    /\ check_pass = [pc |-> "idle"]
    /\ store_ops = [created |-> Len(automations_file), changed |-> {}]

OthersUnchanged ==
    UNCHANGED <<gateVars, worker, planVars, masterVars, memVars, callVars>>

NextAutomations ==
    \/ \E s \in Schedules : create_automation(s) /\ OthersUnchanged
    \/ \E id \in 1..MaxAutomations, on \in BOOLEAN :
          toggle_automation(id, on) /\ OthersUnchanged
    \/ \E id \in 1..MaxAutomations : delete_automation(id) /\ OthersUnchanged
    \/ CheckStart /\ OthersUnchanged
    \/ CheckSkip /\ OthersUnchanged
    \/ CheckExecute /\ OthersUnchanged
    \/ CheckResume /\ OthersUnchanged
    \/ CheckFinish /\ OthersUnchanged
    \/ CheckSleep /\ OthersUnchanged

SpecAutomations == InitAutomations /\ [][NextAutomations]_vars


(***************************************************************************)
(* Claims about the automations store (SpecAutomations)                    *)
(***************************************************************************)
\* C30: when check_and_run_due has returned, every automation that a tool
\* call created, toggled or deleted while the pass awaited a due automation
\* is in the store as that call left it: there when created or toggled,
\* with the enabled flag set (unless the pass itself ran it as a "once"
\* automation), gone when deleted.
C30_ConcurrentChangeSurvives ==
    check_pass.pc = "done" =>
        \A c \in store_ops.changed :
            LET k == IndexOf(automations_file, c.id) IN
            IF c.present
            THEN /\ k # 0
                 /\ automations_file[k].schedule # "once" =>
                       automations_file[k].enabled = c.enabled
            ELSE k = 0

=============================================================================
